---- MODULE Spec2Model ----
(***************************************************************************)
(* River-map generator (src/app.py, src/rivers.py): one map request, from  *)
(* the submitted form to the classified river layer.                       *)
(*                                                                         *)
(*   generate -> generate_country_map: resolve the country, extract the    *)
(*   mainland, read the rivers under the mainland mask -> plot_stylish_map *)
(*   (size metric, normalisation, pd.cut into three classes).              *)
(*                                                                         *)
(* Strings are sequences of one-character strings, so that strip(),        *)
(* lower(), == and str.contains() are computed character by character.     *)
(* Geometries are records; a polygon carries the latitude it sits at and   *)
(* its area in the units of its CRS, a linestring its length, so that      *)
(* to_crs(3857) changes both (Web Mercator inflates with latitude).        *)
(* Metrics are integers; a ratio metric/max is kept as the pair            *)
(* <<numerator, denominator>> and compared with the bin edges by cross     *)
(* multiplication, which is what the float comparison decides for them.    *)
(***************************************************************************)
EXTENDS Integers, Sequences, FiniteSets

VARIABLES
    pc,               \* position of the request inside generate()
    form_country,     \* request.form["country"], as submitted
    countries_file,   \* the countries dataset on disk, as gpd.read_file gives it
    rivers_file,      \* the rivers dataset on disk
    country_name,     \* generate_country_map's argument
    selected_country, \* index labels of the selected rows of country_gdf
    flashed,          \* the messages flashed to the user
    parts,            \* the flattened parts, in EPSG:3857
    largest_idx,      \* 1-based position of the chosen part, 0 when none
    mainland_mask,    \* geometry handed to the river read
    mainland_gdf,     \* frame handed to plot_stylish_map
    river_gdf,        \* rivers read under the mask
    metric,           \* plot_stylish_map: the size metric, one per river
    rel,              \* the values handed to pd.cut, as <<num, den>>
    rivers_3857,      \* the reprojected rivers, with _size_cat once assigned
    outputs,          \* the files saved under OUTPUT_FOLDER
    data_folder,      \* DATA_FOLDER: each dataset file absent, partial or complete
    writes,           \* how often each dataset file was opened with "wb"
    download,         \* where each request thread stands in download_and_save
    pending           \* the form values of the requests still to come

vars == <<pc, form_country, countries_file, rivers_file, country_name,
          selected_country, flashed, parts, largest_idx, mainland_mask,
          mainland_gdf, river_gdf, metric, rel, rivers_3857, outputs,
          data_folder, writes, download, pending>>

(***************************************************************************)
(* Bounds of the explored inputs.                                          *)
(***************************************************************************)
MaxFeatures == 2
MaxQueryLen == 3
MaxRivers == 3
MaxLater == 2

(***************************************************************************)
(* Strings                                                                 *)
(***************************************************************************)
\* str.lower() on one character of the explored alphabet
LowerChar(c) ==
    CASE c = "A" -> "a"
      [] c = "B" -> "b"
      [] OTHER -> c

\* str.lower()
Lower(s) == [i \in 1..Len(s) |-> LowerChar(s[i])]

RECURSIVE LStrip(_)
LStrip(s) == IF s # <<>> /\ Head(s) = " " THEN LStrip(Tail(s)) ELSE s

RECURSIVE RStrip(_)
RStrip(s) ==
    IF s # <<>> /\ s[Len(s)] = " " THEN RStrip(SubSeq(s, 1, Len(s) - 1)) ELSE s

\* str.strip()
Strip(s) == RStrip(LStrip(s))

\* re.compile(pat) raises re.error: of the explored alphabet only "(" can
\* make a pattern invalid (an unterminated group).
RegexInvalid(pat) == \E k \in 1..Len(pat) : pat[k] = "("

\* one pattern character against one text character: "." matches any
\* character, every other character of the alphabet matches itself
RegexCharMatches(p, c) == p = "." \/ p = c

\* Series.str.contains(pat) on one value: regex=True is the default, so
\* the value matches when re.search(pat, value) finds a match
StrContains(text, pat) ==
    \E i \in 0..(Len(text) - Len(pat)) :
        \A k \in 1..Len(pat) : RegexCharMatches(pat[k], text[i + k])

(***************************************************************************)
(* Geometries                                                              *)
(***************************************************************************)
NoneGeom == [type |-> "None"]
Polygon(lat, area) == [type |-> "Polygon", lat |-> lat, size |-> area]
LineString(lat, len) == [type |-> "LineString", lat |-> lat, size |-> len]
MultiPolygon(gs) == [type |-> "MultiPolygon", geoms |-> gs]
GeometryCollection(gs) == [type |-> "GeometryCollection", geoms |-> gs]

IsMulti(g) == g.type \in {"MultiPolygon", "GeometryCollection"}

\* Web Mercator's inflation at the explored latitudes: lengths grow by
\* sec(lat), areas by sec(lat)^2; sec(0) = 1, sec(60) = 2
LengthScale(lat) == IF lat = 60 THEN 2 ELSE 1
AreaScale(lat) == LengthScale(lat) * LengthScale(lat)

SizeScale(g) == IF g.type = "Polygon" THEN AreaScale(g.lat) ELSE LengthScale(g.lat)

RECURSIVE ToCrs(_, _, _)
\* GeoSeries.to_crs on one geometry, between EPSG:4326 and EPSG:3857; the
\* way back divides what the way there multiplied (the library's round
\* trip is the same up to floating-point tolerance)
ToCrs(g, src, dst) ==
    IF g.type = "None" \/ src = dst THEN g
    ELSE IF IsMulti(g)
    THEN [g EXCEPT !.geoms = [i \in 1..Len(g.geoms) |-> ToCrs(g.geoms[i], src, dst)]]
    ELSE IF dst = "EPSG:3857"
    THEN [g EXCEPT !.size = g.size * SizeScale(g)]
    ELSE [g EXCEPT !.size = g.size \div SizeScale(g)]

RECURSIVE SumArea(_)
RECURSIVE Area(_)
\* shapely's .area: 0 for a linestring, the sum over the members of a
\* multi-part geometry
Area(g) ==
    CASE g.type = "Polygon" -> g.size
      [] IsMulti(g) -> SumArea(g.geoms)
      [] OTHER -> 0
SumArea(gs) == IF gs = <<>> THEN 0 ELSE Area(Head(gs)) + SumArea(Tail(gs))

\* GeoSeries.length on one river geometry
Length(g) == IF g.type = "LineString" THEN g.size ELSE 0

RECURSIVE IsEmpty(_)
\* shapely's .is_empty
IsEmpty(g) ==
    CASE g.type = "None" -> FALSE
      [] IsMulti(g) -> \A i \in 1..Len(g.geoms) : IsEmpty(g.geoms[i])
      [] OTHER -> g.size = 0

RECURSIVE Atoms(_)
\* the non-empty single-part geometries inside a geometry
Atoms(g) ==
    CASE g.type = "None" -> <<>>
      [] IsMulti(g) ->
           IF g.geoms = <<>> THEN <<>>
           ELSE Atoms(Head(g.geoms)) \o Atoms([g EXCEPT !.geoms = Tail(g.geoms)])
      [] OTHER -> IF g.size = 0 THEN <<>> ELSE <<g>>

RECURSIVE AtomsOfAll(_)
AtomsOfAll(gs) == IF gs = <<>> THEN <<>> ELSE Atoms(Head(gs)) \o AtomsOfAll(Tail(gs))

\* GeoSeries.unary_union: the empty collection when nothing is left, the
\* geometry itself when one part is left, else the parts together
UnaryUnion(gs) ==
    LET as == AtomsOfAll(gs)
    IN  IF as = <<>> THEN GeometryCollection(<<>>)
        ELSE IF Len(as) = 1 THEN as[1]
        ELSE IF \A i \in 1..Len(as) : as[i].type = "Polygon" THEN MultiPolygon(as)
        ELSE GeometryCollection(as)

(***************************************************************************)
(* Frames                                                                  *)
(***************************************************************************)
RECURSIVE IndexSeq(_)
\* the labels of a boolean mask, in row order
IndexSeq(S) ==
    IF S = {} THEN <<>>
    ELSE LET m == CHOOSE x \in S : \A y \in S : x <= y
         IN  <<m>> \o IndexSeq(S \ {m})

\* country_gdf["TYPE"] != "Dependency"
NotDependency(row) == row.TYPE # "Dependency"

\* the exact pass without its TYPE filter
ExactMatchAnyType(country_gdf, country_input) ==
    IndexSeq({i \in 1..Len(country_gdf.rows) :
                 Lower(country_gdf.rows[i].SOVEREIGNT) = Lower(country_input)})

\* country_gdf[(SOVEREIGNT.str.lower() == country_input.lower()) & (TYPE != "Dependency")]
ExactMatch(country_gdf, country_input) ==
    IndexSeq({i \in 1..Len(country_gdf.rows) :
                 /\ Lower(country_gdf.rows[i].SOVEREIGNT) = Lower(country_input)
                 /\ NotDependency(country_gdf.rows[i])})

\* mask = SOVEREIGNT.str.lower().str.contains(country_input.lower())
\* country_gdf[mask & (TYPE != "Dependency")]
ContainsMatch(country_gdf, country_input) ==
    IndexSeq({i \in 1..Len(country_gdf.rows) :
                 /\ StrContains(Lower(country_gdf.rows[i].SOVEREIGNT), Lower(country_input))
                 /\ NotDependency(country_gdf.rows[i])})

\* the geometry column of the selected rows, in row order
SelectedGeometry(country_gdf, sel) ==
    [k \in 1..Len(sel) |-> country_gdf.rows[sel[k]].geometry]

RECURSIVE FlattenKeepsNone(_)
\* the loop without its "geom is None" test
FlattenKeepsNone(gs) ==
    IF gs = <<>> THEN <<>>
    ELSE (IF IsMulti(Head(gs)) THEN Head(gs).geoms ELSE <<Head(gs)>>)
             \o FlattenKeepsNone(Tail(gs))

RECURSIVE Flatten(_)
\* the loop over selected_3857.geometry: None is skipped, a MultiPolygon or
\* GeometryCollection contributes its geoms (one level), anything else itself
Flatten(gs) ==
    IF gs = <<>> THEN <<>>
    ELSE LET g == Head(gs)
         IN  (CASE g.type = "None" -> <<>>
                [] IsMulti(g) -> g.geoms
                [] OTHER -> <<g>>) \o Flatten(Tail(gs))

RECURSIVE ArgMaxScan(_, _, _)
ArgMaxScan(xs, i, best) ==
    IF i > Len(xs) THEN best
    ELSE ArgMaxScan(xs, i + 1, IF xs[i] > xs[best] THEN i ELSE best)

\* the last position holding the maximum
ArgMaxLast(xs) ==
    CHOOSE i \in 1..Len(xs) :
        /\ \A j \in 1..Len(xs) : xs[j] <= xs[i]
        /\ \A j \in (i + 1)..Len(xs) : xs[j] < xs[i]

\* int(np.argmax(areas)), 1-based: the first position holding the maximum
ArgMax(xs) == ArgMaxScan(xs, 2, 1)

\* the latitudes a geometry touches
Bands(g) == {Atoms(g)[i].lat : i \in 1..Len(Atoms(g))}

\* the spatial filter of gpd.read_file(..., mask=mask) on one feature
Intersects(g, mask) == Bands(g) \cap Bands(mask) # {}

\* the rows gpd.read_file(hydrorivers_fp, mask=mainland_mask) returns
MaskedRows(file, mask) == SelectSeq(file.rows, LAMBDA r : Intersects(r.geometry, mask))

(***************************************************************************)
(* plot_stylish_map: the size classes                                      *)
(***************************************************************************)
Null == [null |-> TRUE]
Value(v) == [null |-> FALSE, v |-> v]

\* Series.fillna(0).astype(float) on one value
FillNa0(x) == IF x.null THEN 0 ELSE x.v

\* GeoDataFrame.to_crs(epsg=3857) on the rivers
RiversTo3857(gdf) ==
    [gdf EXCEPT !.crs = "EPSG:3857",
                !.rows = [i \in 1..Len(gdf.rows) |->
                             [gdf.rows[i] EXCEPT !.geometry = ToCrs(@, gdf.crs, "EPSG:3857")]]]

\* the metric of row i, chosen row by row: the length where the area is null
MetricOfPerRow(gdf, i) ==
    IF "UPLAND_SKM" \in gdf.columns /\ ~gdf.rows[i].UPLAND_SKM.null
    THEN gdf.rows[i].UPLAND_SKM.v
    ELSE Length(gdf.rows[i].geometry)

\* the metric of row i: the choice is made on the frame's columns
MetricOf(gdf, i) ==
    IF "UPLAND_SKM" \in gdf.columns
    THEN FillNa0(gdf.rows[i].UPLAND_SKM)
    ELSE Length(gdf.rows[i].geometry)

\* metric: UPLAND_SKM with nulls as 0 when the column exists, else the length
Metric(gdf) == [i \in 1..Len(gdf.rows) |-> MetricOf(gdf, i)]

\* Series.max() of a non-empty series
SeriesMax(xs) == CHOOSE m \in {xs[i] : i \in 1..Len(xs)} : \A i \in 1..Len(xs) : xs[i] <= m

\* metric.max() > 0: the maximum of an empty series is NaN, and NaN > 0 is False
MaxIsPositive(xs) == xs # <<>> /\ SeriesMax(xs) > 0

\* rel = metric / metric.max() if metric.max() > 0 else metric,
\* each value as <<numerator, denominator>>
Rel(xs) ==
    IF MaxIsPositive(xs)
    THEN [i \in 1..Len(xs) |-> <<xs[i], SeriesMax(xs)>>]
    ELSE [i \in 1..Len(xs) |-> <<xs[i], 1>>]

\* bins=[-1, 0.33, 0.66, 1.0], in hundredths
Bins == <<-100, 33, 66, 100>>
Labels == <<"small", "medium", "large">>

\* bins.searchsorted(x, side="left"): the number of edges below x
SearchSorted(x) == Cardinality({b \in 1..Len(Bins) : Bins[b] * x[2] < 100 * x[1]})

\* pd.cut with right=False: left-closed intervals
CutLeftClosed(x) ==
    LET ids == Cardinality({b \in 1..Len(Bins) : Bins[b] * x[2] <= 100 * x[1]})
    IN  IF ids = 0 \/ ids = Len(Bins) THEN "NaN" ELSE Labels[ids]

\* pd.cut(x, bins, labels) on one value: right-closed intervals, NaN for a
\* value at or below the first edge or above the last
Cut(x) ==
    LET ids == SearchSorted(x)
    IN  IF ids = 0 \/ ids = Len(Bins) THEN "NaN" ELSE Labels[ids]

\* rivers_3857.assign(_size_cat=cats)
AssignSizeCat(gdf, cats) ==
    [gdf EXCEPT !.columns = @ \cup {"_size_cat"},
                !.rows = [i \in 1..Len(gdf.rows) |->
                             [c \in (DOMAIN gdf.rows[i]) \cup {"_size_cat"} |->
                                 IF c = "_size_cat" THEN cats[i] ELSE gdf.rows[i][c]]]]

\* stem = f"rivers_of_{country_name.lower().replace(' ', '_')}"
Stem(name) == [i \in 1..Len(name) |-> IF name[i] = " " THEN "_" ELSE LowerChar(name[i])]

(***************************************************************************)
(* The explored inputs                                                     *)
(***************************************************************************)
\* all sequences over S of length at most n
SeqsUpTo(S, n) == UNION {[1..k -> S] : k \in 0..n}

\* sovereignty names of the explored datasets: "Ab", "Aba"
Names == {<<"A", "b">>, <<"A", "b", "a">>}
Types == {"Sovereign country", "Dependency"}

\* characters a submitted country name is made of
QueryChars == {"a", "B", " ", ".", "("}
Queries == SeqsUpTo(QueryChars, MaxQueryLen)

CountriesFrame(rows) == [crs |-> "EPSG:4326", rows |-> rows]

\* datasets that vary names and types over one plain polygon
NamedCountries ==
    {CountriesFrame(rows) :
        rows \in SeqsUpTo([SOVEREIGNT : Names, TYPE : Types,
                           geometry : {Polygon(0, 1)}], MaxFeatures)}

\* geometries a country feature may carry, in EPSG:4326: null, empty and
\* plain polygons (two of them with equal Web Mercator area), a linestring,
\* multi-polygons, collections with a non-polygon member and with a nested
\* multi-polygon
CountryGeoms ==
    {NoneGeom, Polygon(0, 0), Polygon(0, 4), Polygon(60, 1), Polygon(60, 2),
     LineString(0, 3),
     MultiPolygon(<<>>),
     MultiPolygon(<<Polygon(0, 4), Polygon(60, 1)>>),
     MultiPolygon(<<Polygon(60, 1), Polygon(60, 2), Polygon(0, 4)>>),
     GeometryCollection(<<>>),
     GeometryCollection(<<LineString(0, 3), Polygon(0, 4)>>),
     GeometryCollection(<<MultiPolygon(<<Polygon(60, 2), Polygon(0, 4)>>), Polygon(60, 2)>>)}

\* datasets that vary the geometry under one name
ShapedCountries ==
    {CountriesFrame(rows) :
        rows \in SeqsUpTo([SOVEREIGNT : {<<"A", "b">>}, TYPE : {"Sovereign country"},
                           geometry : CountryGeoms], MaxFeatures)}

RiversFrame(columns, rows) == [crs |-> "EPSG:4326", columns |-> columns, rows |-> rows]

\* UPLAND_SKM values: null, negative, zero, and values on both sides of
\* the bin edges for a maximum of 100 or 1000
Uplands == {Null} \cup {Value(v) : v \in {-10, -1, 0, 10, 33, 34, 66, 67, 100, 500, 1000}}
RiverLens == {0, 1, 2, 5}
Lats == {0, 60}

\* hydrorivers files with the UPLAND_SKM column
RiversWithUpland ==
    {RiversFrame({"UPLAND_SKM", "geometry"}, rows) :
        rows \in SeqsUpTo([UPLAND_SKM : Uplands, geometry : {LineString(60, 3)}], MaxRivers)}

\* river files without it
RiversWithoutUpland ==
    {RiversFrame({"geometry"}, rows) :
        rows \in SeqsUpTo([geometry : {LineString(lat, len) : lat \in Lats, len \in RiverLens}],
                          MaxRivers)}

SampleRivers ==
    RiversFrame({"UPLAND_SKM", "geometry"},
                <<[UPLAND_SKM |-> Value(10), geometry |-> LineString(0, 1)],
                  [UPLAND_SKM |-> Value(1000), geometry |-> LineString(60, 1)]>>)

SampleCountries ==
    CountriesFrame(<<[SOVEREIGNT |-> <<"A", "b">>, TYPE |-> "Sovereign country",
                      geometry |-> Polygon(60, 2)]>>)

SampleQueries == {<<"a", "B">>}

(***************************************************************************)
(* The request                                                             *)
(***************************************************************************)
\* the two dataset files of DATA_FOLDER
COUNTRIES_FILE == "ne_10m_admin_0_countries_ind.zip"
HYDRORIVERS_FILE == "hydrorivers_100.gpkg"
Files == {COUNTRIES_FILE, HYDRORIVERS_FILE}

\* the request followed through generate() and a second request that the
\* threaded server runs at the same time; of the second one only the two
\* download_and_save calls are followed, the rest of it touches no dataset file
Threads == {"main", "other"}
NotDownloading == [step |-> "idle", file |-> COUNTRIES_FILE]
FirstDownload == [step |-> "check", file |-> COUNTRIES_FILE]

\* form values of the requests served against a cold cache
ServeForms == {<<"a", "B">>, <<" ">>, <<"a", "a">>, <<"(">>}

\* what a request starts from
FreshRequest ==
    /\ country_name = <<>>
    /\ selected_country = <<>>
    /\ flashed = <<>>
    /\ parts = <<>>
    /\ largest_idx = 0
    /\ mainland_mask = NoneGeom
    /\ mainland_gdf = [crs |-> "EPSG:4326", geometry |-> <<>>]
    /\ river_gdf = RiversFrame({}, <<>>)
    /\ metric = <<>>
    /\ rel = <<>>
    /\ rivers_3857 = RiversFrame({}, <<>>)

Init ==
    /\ pc = "generate"
    /\ \/ /\ countries_file \in NamedCountries
          /\ form_country \in Queries
          /\ rivers_file = SampleRivers
          /\ data_folder = [f \in Files |-> "complete"]
          /\ download = [t \in Threads |-> NotDownloading]
          /\ pending = <<>>
       \/ /\ countries_file \in ShapedCountries
          /\ form_country \in SampleQueries
          /\ rivers_file = SampleRivers
          /\ data_folder = [f \in Files |-> "complete"]
          /\ download = [t \in Threads |-> NotDownloading]
          /\ pending = <<>>
       \/ /\ countries_file = SampleCountries
          /\ form_country \in SampleQueries
          /\ rivers_file \in RiversWithUpland \cup RiversWithoutUpland
          /\ data_folder = [f \in Files |-> "complete"]
          /\ download = [t \in Threads |-> NotDownloading]
          /\ pending = <<>>
       \/ /\ countries_file = SampleCountries
          /\ form_country \in ServeForms
          /\ rivers_file = SampleRivers
          /\ data_folder = [f \in Files |-> "absent"]
          /\ \E second \in {NotDownloading, FirstDownload} :
                 download = [t \in Threads |-> IF t = "main" THEN NotDownloading ELSE second]
          /\ pending \in SeqsUpTo(ServeForms, MaxLater)
    /\ FreshRequest
    /\ writes = [f \in Files |-> 0]
    /\ outputs = {}

\* generate(): the form value is stripped; an empty one is flashed and
\* redirected, anything else goes to generate_country_map, which starts
\* with download_and_save of the countries file
Generate ==
    /\ pc = "generate"
    /\ LET country == Strip(form_country)
       IN  IF country = <<>>
           THEN /\ flashed' = Append(flashed, "Please select a country.")
                /\ pc' = "redirected"
                /\ UNCHANGED <<country_name, download>>
           ELSE /\ country_name' = country
                /\ pc' = "download"
                /\ download' = [download EXCEPT !["main"] = FirstDownload]
                /\ UNCHANGED flashed
    /\ UNCHANGED <<form_country, countries_file, rivers_file, selected_country, parts,
                   largest_idx, mainland_mask, mainland_gdf, river_gdf, metric, rel,
                   rivers_3857, outputs, data_folder, writes, pending>>

\* where a thread stands once download_and_save returned: the countries
\* file is followed by the rivers file, the rivers file by the read
Returned(t) ==
    IF download[t].file = COUNTRIES_FILE
    THEN [step |-> "check", file |-> HYDRORIVERS_FILE]
    ELSE [step |-> "done", file |-> HYDRORIVERS_FILE]

\* download_and_save returns filepath
Return(t) ==
    /\ download' = [download EXCEPT ![t] = Returned(t)]
    /\ pc' = IF t = "main" /\ Returned(t).step = "done" THEN "resolve" ELSE pc
    /\ UNCHANGED flashed

\* an exception inside download_and_save ends in generate()'s handler
Raise(t, e) ==
    /\ download' = [download EXCEPT ![t].step = "failed"]
    /\ IF t = "main"
       THEN /\ flashed' = Append(flashed, e)
            /\ pc' = "redirected"
       ELSE UNCHANGED <<flashed, pc>>

\* another thread is inside the chunk loop of the same file
WrittenByAnother(t, f) ==
    \E u \in Threads \ {t} : download[u].step = "write" /\ download[u].file = f

\* if not os.path.exists(filepath)
DownloadCheck(t) ==
    /\ download[t].step = "check"
    /\ IF data_folder[download[t].file] # "absent"
       THEN Return(t)
       ELSE /\ download' = [download EXCEPT ![t].step = "get"]
            /\ UNCHANGED <<pc, flashed>>
    /\ UNCHANGED <<form_country, countries_file, rivers_file, country_name,
                   selected_country, parts, largest_idx, mainland_mask, mainland_gdf,
                   river_gdf, metric, rel, rivers_3857, outputs, data_folder, writes,
                   pending>>

\* requests.get and r.raise_for_status(), then open(filepath, "wb"), which
\* creates the file or truncates the one that is there
DownloadOpen(t) ==
    /\ download[t].step = "get"
    /\ \E ok \in BOOLEAN :
           IF ok
           THEN /\ data_folder' = [data_folder EXCEPT ![download[t].file] = "partial"]
                /\ writes' = [writes EXCEPT ![download[t].file] = @ + 1]
                /\ download' = [download EXCEPT ![t].step = "write"]
                /\ UNCHANGED <<pc, flashed>>
           ELSE /\ Raise(t, "HTTPError")
                /\ UNCHANGED <<data_folder, writes>>
    /\ UNCHANGED <<form_country, countries_file, rivers_file, country_name,
                   selected_country, parts, largest_idx, mainland_mask, mainland_gdf,
                   river_gdf, metric, rel, rivers_3857, outputs, pending>>

\* for chunk in r.iter_content(...): f.write(chunk); the stream either ends
\* or breaks part-way, and then what was written stays on disk
DownloadWrite(t) ==
    /\ download[t].step = "write"
    /\ \E ok \in BOOLEAN :
           IF ok
           THEN /\ data_folder' = [data_folder EXCEPT ![download[t].file] =
                                      IF WrittenByAnother(t, download[t].file)
                                      THEN "partial" ELSE "complete"]
                /\ Return(t)
           ELSE /\ Raise(t, "ChunkedEncodingError")
                /\ UNCHANGED data_folder
    /\ UNCHANGED <<form_country, countries_file, rivers_file, country_name,
                   selected_country, parts, largest_idx, mainland_mask, mainland_gdf,
                   river_gdf, metric, rel, rivers_3857, outputs, writes, pending>>

\* the two selection passes without the raise of an empty selection
ResolveCountryQuiet(country_gdf, name) ==
    LET country_input == Strip(name)
        exact == ExactMatch(country_gdf, country_input)
    IN  [raised |-> "",
         selected |-> IF exact # <<>> THEN exact
                      ELSE IF RegexInvalid(Lower(country_input)) THEN <<>>
                      ELSE ContainsMatch(country_gdf, country_input)]

\* what the two selection passes of generate_country_map end in
ResolveCountry(country_gdf, name) ==
    LET country_input == Strip(name)
        exact == ExactMatch(country_gdf, country_input)
    IN  IF exact # <<>> THEN [raised |-> "", selected |-> exact]
        ELSE IF RegexInvalid(Lower(country_input))
        THEN [raised |-> "re.error", selected |-> <<>>]
        ELSE LET sub == ContainsMatch(country_gdf, country_input)
             IN  IF sub = <<>>
                 THEN [raised |-> "Country not found. Try a different name.",
                       selected |-> <<>>]
                 ELSE [raised |-> "", selected |-> sub]

\* generate_country_map, the selection: gpd.read_file(countries_fp) fails
\* on a file that is not whole; an exception ends in generate()'s handler,
\* which flashes str(e) and redirects
Resolve ==
    /\ pc = "resolve"
    /\ LET r == ResolveCountry(countries_file, country_name)
       IN  IF data_folder[COUNTRIES_FILE] # "complete"
           THEN /\ flashed' = Append(flashed, "DataSourceError")
                /\ pc' = "redirected"
                /\ UNCHANGED selected_country
           ELSE IF r.raised # ""
           THEN /\ flashed' = Append(flashed, r.raised)
                /\ pc' = "redirected"
                /\ UNCHANGED selected_country
           ELSE /\ selected_country' = r.selected
                /\ pc' = "mainland"
                /\ UNCHANGED flashed
    /\ UNCHANGED <<form_country, countries_file, rivers_file, country_name, parts,
                   largest_idx, mainland_mask, mainland_gdf, river_gdf, metric, rel,
                   rivers_3857, outputs, data_folder, writes, download, pending>>

\* parts, from selected_country.to_crs(epsg=3857)
Parts(country_gdf, sel) ==
    LET original == SelectedGeometry(country_gdf, sel)
    IN  Flatten([k \in 1..Len(original) |-> ToCrs(original[k], country_gdf.crs, "EPSG:3857")])

\* areas = [g.area for g in parts]
Areas(ps) == [k \in 1..Len(ps) |-> Area(ps[k])]

\* generate_country_map, the mainland
Mainland ==
    /\ pc = "mainland"
    /\ LET country_gdf == countries_file
           original == SelectedGeometry(country_gdf, selected_country)
           ps == Parts(country_gdf, selected_country)
       IN  /\ parts' = ps
           /\ IF Len(ps) = 0
              THEN /\ largest_idx' = 0
                   /\ mainland_mask' = UnaryUnion(original)
                   /\ mainland_gdf' = [crs |-> country_gdf.crs, geometry |-> original]
              ELSE LET idx == ArgMax(Areas(ps))
                       largest == ToCrs(ps[idx], "EPSG:3857", country_gdf.crs)
                   IN  /\ largest_idx' = idx
                       /\ mainland_mask' = largest
                       /\ mainland_gdf' = [crs |-> country_gdf.crs, geometry |-> <<largest>>]
    /\ pc' = "read_rivers"
    /\ UNCHANGED <<form_country, countries_file, rivers_file, country_name,
                   selected_country, flashed, river_gdf, metric, rel, rivers_3857, outputs,
                   data_folder, writes, download, pending>>

\* river_gdf = gpd.read_file(hydrorivers_fp, mask=mainland_mask); the read
\* fails on a file that is not whole; what a read under an empty mask
\* returns depends on the installed reader: nothing, or the whole file
ReadRivers ==
    /\ pc = "read_rivers"
    /\ IF data_folder[HYDRORIVERS_FILE] # "complete"
       THEN /\ flashed' = Append(flashed, "DataSourceError")
            /\ pc' = "redirected"
            /\ UNCHANGED river_gdf
       ELSE /\ \E rows \in {MaskedRows(rivers_file, mainland_mask)} \cup
                          (IF IsEmpty(mainland_mask) THEN {rivers_file.rows} ELSE {}) :
                  river_gdf' = [rivers_file EXCEPT !.rows = rows]
            /\ pc' = "plot"
            /\ UNCHANGED flashed
    /\ UNCHANGED <<form_country, countries_file, rivers_file, country_name,
                   selected_country, parts, largest_idx, mainland_mask,
                   mainland_gdf, metric, rel, rivers_3857, outputs,
                   data_folder, writes, download, pending>>

\* country_3857.total_bounds is NaN when the frame holds no coordinates
TotalBoundsNaN(gdf) ==
    \A k \in 1..Len(gdf.geometry) : gdf.geometry[k].type = "None" \/ IsEmpty(gdf.geometry[k])

\* plot_stylish_map: metric, rel, cats and the assigned frame; then the
\* axis limits, which matplotlib refuses when they are NaN (generate()
\* flashes the error and nothing is saved), and the two saved files
PlotStylishMap ==
    /\ pc = "plot"
    /\ LET reprojected == RiversTo3857(river_gdf)
           m == Metric(reprojected)
           r == Rel(m)
           cats == [i \in 1..Len(r) |-> Cut(r[i])]
       IN  /\ metric' = m
           /\ rel' = r
           /\ rivers_3857' = AssignSizeCat(reprojected, cats)
    /\ IF TotalBoundsNaN(mainland_gdf)
       THEN /\ flashed' = Append(flashed, "Axis limits cannot be NaN or Inf")
            /\ pc' = "redirected"
            /\ UNCHANGED outputs
       ELSE /\ outputs' = outputs \cup {[stem |-> Stem(country_name), ext |-> e] :
                                            e \in {"png", "pdf"}}
            /\ pc' = "rendered"
            /\ UNCHANGED flashed
    /\ UNCHANGED <<form_country, countries_file, rivers_file, country_name,
                   selected_country, parts, largest_idx, mainland_mask,
                   mainland_gdf, river_gdf, data_folder, writes, download, pending>>

\* the server takes the next request once generate() has returned; the
\* dataset files and the saved maps stay as they are
NextRequest ==
    /\ pc \in {"redirected", "rendered"}
    /\ pending # <<>>
    /\ form_country' = Head(pending)
    /\ pending' = Tail(pending)
    /\ pc' = "generate"
    /\ download' = [download EXCEPT !["main"] = NotDownloading]
    /\ country_name' = <<>>
    /\ selected_country' = <<>>
    /\ flashed' = <<>>
    /\ parts' = <<>>
    /\ largest_idx' = 0
    /\ mainland_mask' = NoneGeom
    /\ mainland_gdf' = [crs |-> "EPSG:4326", geometry |-> <<>>]
    /\ river_gdf' = RiversFrame({}, <<>>)
    /\ metric' = <<>>
    /\ rel' = <<>>
    /\ rivers_3857' = RiversFrame({}, <<>>)
    /\ UNCHANGED <<countries_file, rivers_file, outputs, data_folder, writes>>

Next ==
    \/ Generate
    \/ \E t \in Threads : DownloadCheck(t)
    \/ \E t \in Threads : DownloadOpen(t)
    \/ \E t \in Threads : DownloadWrite(t)
    \/ Resolve
    \/ Mainland
    \/ ReadRivers
    \/ PlotStylishMap
    \/ NextRequest

Spec == Init /\ [][Next]_vars

(***************************************************************************)
(* Properties of the country resolution                                    *)
(***************************************************************************)
\* the request has left the selection passes
Resolved == selected_country # <<>>

\* the request ended in a download or a file read that raised
ReadFailed ==
    \E k \in 1..Len(flashed) :
        flashed[k] \in {"HTTPError", "ChunkedEncodingError", "DataSourceError"}
ResolutionOver ==
    /\ pc \notin {"generate", "download", "resolve"}
    /\ country_name # <<>>
    /\ ~ReadFailed

\* the selection passes ended in an exception
ResolutionFailed ==
    \E k \in 1..Len(flashed) :
        flashed[k] \in {"Country not found. Try a different name.", "re.error"}

\* t is q without its surrounding whitespace
IsTrimOf(t, q) ==
    \E a \in 1..(Len(q) + 1), b \in 0..Len(q) :
        /\ t = SubSeq(q, a, b)
        /\ \A k \in 1..(a - 1) : q[k] = " "
        /\ \A k \in (b + 1)..Len(q) : q[k] = " "
        /\ a <= b => (q[a] # " " /\ q[b] # " ")

SameIgnoringCase(s, t) ==
    Len(s) = Len(t) /\ \A k \in 1..Len(s) : LowerChar(s[k]) = LowerChar(t[k])

\* the submitted name, trimmed, equals the row's sovereignty name
QueryNames(row) ==
    \E a \in 1..(Len(form_country) + 1), b \in 0..Len(form_country) :
        /\ IsTrimOf(SubSeq(form_country, a, b), form_country)
        /\ SameIgnoringCase(SubSeq(form_country, a, b), row.SOVEREIGNT)

\* the trimmed, case-folded name is a literal substring of the row's
QueryInside(row) ==
    \E a \in 1..(Len(form_country) + 1), b \in 0..Len(form_country) :
        /\ IsTrimOf(SubSeq(form_country, a, b), form_country)
        /\ \E i \in 0..(Len(row.SOVEREIGNT) - (b - a + 1)) :
               SameIgnoringCase(SubSeq(form_country, a, b),
                                SubSeq(row.SOVEREIGNT, i + 1, i + (b - a + 1)))

RowLabels == 1..Len(countries_file.rows)
ExactLabels ==
    {i \in RowLabels : countries_file.rows[i].TYPE # "Dependency"
                       /\ QueryNames(countries_file.rows[i])}
SubstringLabels ==
    {i \in RowLabels : countries_file.rows[i].TYPE # "Dependency"
                       /\ QueryInside(countries_file.rows[i])}
SelectedLabels == {selected_country[k] : k \in 1..Len(selected_country)}

\* C1: when the trimmed name equals, ignoring case, the sovereignty name of
\* some non-dependency feature, the request resolves and the selection is
\* exactly the non-dependency features of that name; a selection never
\* holds a feature of type Dependency.
C1_ExactPass ==
    ResolutionOver =>
        /\ ExactLabels # {} =>
               /\ Resolved
               /\ ~ResolutionFailed
               /\ SelectedLabels = ExactLabels
               /\ Len(selected_country) = Cardinality(ExactLabels)
        /\ \A i \in SelectedLabels : countries_file.rows[i].TYPE # "Dependency"

\* an exact pass on a name typed with other case and surrounding
\* whitespace, over a dataset holding a dependency of the same name
C1_Witness ==
    /\ pc = "mainland"
    /\ ExactLabels # {}
    /\ form_country # Strip(form_country)
    /\ form_country # Lower(form_country)
    /\ \E i \in RowLabels : /\ countries_file.rows[i].TYPE = "Dependency"
                            /\ QueryNames(countries_file.rows[i])

\* C2: substring matching is consulted only when the exact set is empty:
\* a non-empty exact set is the selection, and an empty one leaves exactly
\* the non-dependency features whose name contains the trimmed name as a
\* literal substring, ignoring case.
C2_Precedence ==
    ResolutionOver =>
        /\ ExactLabels # {} => SelectedLabels = ExactLabels
        /\ ExactLabels = {} => SelectedLabels = SubstringLabels

\* C3: a name that is a literal substring of no non-dependency feature's
\* sovereignty name ends in the not-found message and no selection.
C3_NotFound ==
    (ResolutionOver /\ SubstringLabels = {}) =>
        /\ pc = "redirected"
        /\ flashed = <<"Country not found. Try a different name.">>
        /\ selected_country = <<>>

(***************************************************************************)
(* Properties of the mainland extraction                                   *)
(***************************************************************************)
Extracted == Resolved /\ pc # "mainland"

\* the selected features' geometries, as stored in the dataset
OriginalGeometry(k) == countries_file.rows[selected_country[k]].geometry

\* the constituents a geometry is flattened into, in its own CRS
Constituents(g) ==
    IF g.type = "None" THEN <<>>
    ELSE IF g.type \in {"MultiPolygon", "GeometryCollection"} THEN g.geoms
    ELSE <<g>>

RECURSIVE PartsBefore(_)
\* how many parts the features before the k-th contribute
PartsBefore(k) ==
    IF k <= 1 THEN 0
    ELSE PartsBefore(k - 1) + Len(Constituents(OriginalGeometry(k - 1)))

\* the planar (Web Mercator) area of a part given in EPSG:4326
RECURSIVE PlanarArea(_)
PlanarArea(g) ==
    IF g.type = "Polygon" THEN g.size * (IF g.lat = 60 THEN 4 ELSE 1)
    ELSE IF g.type = "MultiPolygon"
    THEN IF g.geoms = <<>> THEN 0
         ELSE PlanarArea(Head(g.geoms)) + PlanarArea([g EXCEPT !.geoms = Tail(g.geoms)])
    ELSE 0

\* the m-th constituent of the k-th selected feature is part number
\* PartsBefore(k) + m
PartsInOrder ==
    /\ Len(parts) = PartsBefore(Len(selected_country) + 1)
    /\ \A k \in 1..Len(selected_country) :
           \A m \in 1..Len(Constituents(OriginalGeometry(k))) :
               /\ Area(parts[PartsBefore(k) + m])
                      = PlanarArea(Constituents(OriginalGeometry(k))[m])
               /\ ToCrs(parts[PartsBefore(k) + m], "EPSG:3857", "EPSG:4326")
                      = Constituents(OriginalGeometry(k))[m]

\* C4: when the selection yields a part, the mainland is the part of
\* maximum planar area among the flattened parts, taken in feature order
\* then constituent order, the first one on a tie; it is one of the parts.
C4_LargestPart ==
    (Extracted /\ parts # <<>>) =>
        /\ PartsInOrder
        /\ largest_idx \in 1..Len(parts)
        /\ \A j \in 1..Len(parts) : Area(parts[j]) <= Area(parts[largest_idx])
        /\ \A j \in 1..(largest_idx - 1) : Area(parts[j]) < Area(parts[largest_idx])
        /\ \E k \in 1..Len(selected_country) :
               \E m \in 1..Len(Constituents(OriginalGeometry(k))) :
                   /\ PartsBefore(k) + m = largest_idx
                   /\ mainland_mask = Constituents(OriginalGeometry(k))[m]

\* two features, and a later part that ties with the chosen first one
\* while being a different polygon
C4_Witness ==
    /\ Extracted
    /\ Len(selected_country) = 2
    /\ Len(parts) >= 3
    /\ largest_idx = 1
    /\ \E j \in 2..Len(parts) : /\ Area(parts[j]) = Area(parts[1])
                                /\ parts[j] # parts[1]

\* C5: for a selection that yields a part, the mainland region is one
\* single polygon, never multi-part and never several features, in the
\* CRS of the selection.
C5_SinglePolygon ==
    (Extracted /\ parts # <<>>) =>
        /\ Len(mainland_gdf.geometry) = 1
        /\ mainland_gdf.geometry[1].type = "Polygon"
        /\ mainland_mask.type = "Polygon"
        /\ mainland_gdf.crs = countries_file.crs

NullOrEmpty(g) == g.type = "None" \/ IsEmpty(g)
NullOrMemberless(g) ==
    g.type = "None" \/ (g.type \in {"MultiPolygon", "GeometryCollection"} /\ g.geoms = <<>>)

\* the fallback: no exception, the union of the stored geometries as the
\* mask, the selection itself as the region
FellBack ==
    /\ pc = "read_rivers" => flashed = <<>>
    /\ parts = <<>>
    /\ largest_idx = 0
    /\ mainland_mask = GeometryCollection(<<>>)
    /\ mainland_gdf.crs = countries_file.crs
    /\ Len(mainland_gdf.geometry) = Len(selected_country)
    /\ \A k \in 1..Len(selected_country) : mainland_gdf.geometry[k] = OriginalGeometry(k)

\* C6, as claimed: when every geometry of the selection is null or empty,
\* the extraction falls back to the union of the original selection as the
\* mask and to the selection itself as the region.
C6_FallbackOnNullOrEmpty ==
    (Extracted /\ \A k \in 1..Len(selected_country) : NullOrEmpty(OriginalGeometry(k)))
        => FellBack

\* C6, amended: when every geometry of the selection is null or a
\* multi-polygon or collection without members, so that no part exists,
\* the extraction falls back; an empty single polygon is a part.
C6_FallbackOnNoPart ==
    (Extracted /\ \A k \in 1..Len(selected_country) : NullOrMemberless(OriginalGeometry(k)))
        => FellBack

\* a fallback over two features, one null and one an empty multi-polygon
C6_Witness ==
    /\ Extracted
    /\ Len(selected_country) = 2
    /\ \A k \in 1..2 : NullOrMemberless(OriginalGeometry(k))
    /\ \E k \in 1..2 : OriginalGeometry(k).type = "None"
    /\ \E k \in 1..2 : OriginalGeometry(k).type = "MultiPolygon"
    /\ FellBack

(***************************************************************************)
(* Properties of the river classification                                  *)
(***************************************************************************)
Rendered == pc = "rendered"
Rivers == 1..Len(river_gdf.rows)
SizeClass(i) == rivers_3857.rows[i]._size_cat

MetricValues == {metric[i] : i \in 1..Len(metric)}

\* M is the maximum metric over the rivers
IsMaxMetric(M) == M \in MetricValues /\ \A i \in 1..Len(metric) : metric[i] <= M

\* the length of a stored river geometry once in Web Mercator
PlanarLength(g) == g.size * (IF g.lat = 60 THEN 2 ELSE 1)

\* C7: the classification keeps the number and order of the rivers and
\* every original attribute, and gives every river one of the classes
\* small, medium, large.
C7_PureAnnotation ==
    Rendered =>
        /\ Len(rivers_3857.rows) = Len(river_gdf.rows)
        /\ Len(metric) = Len(river_gdf.rows)
        /\ \A i \in Rivers :
               /\ \A c \in river_gdf.columns \ {"geometry"} :
                      rivers_3857.rows[i][c] = river_gdf.rows[i][c]
               /\ rivers_3857.rows[i].geometry.type = river_gdf.rows[i].geometry.type
               /\ rivers_3857.rows[i].geometry.lat = river_gdf.rows[i].geometry.lat
               /\ rivers_3857.rows[i].geometry.size = PlanarLength(river_gdf.rows[i].geometry)
               /\ SizeClass(i) \in {"small", "medium", "large"}

\* C8: when the maximum metric is <= 0 the raw values are bucketed and
\* every river is small.
C8_DegenerateMaximum ==
    (Rendered /\ \E M \in MetricValues : M <= 0 /\ IsMaxMetric(M)) =>
        \A i \in Rivers : rel[i] = <<metric[i], 1>> /\ SizeClass(i) = "small"

\* the class the thresholds give a ratio num/den, den > 0
ThresholdsHold(i, M) ==
    /\ rel[i] = <<metric[i], M>>
    /\ 0 <= metric[i] /\ metric[i] <= M
    /\ SizeClass(i) = "small" <=> 100 * metric[i] <= 33 * M
    /\ SizeClass(i) = "medium" <=> (33 * M < 100 * metric[i] /\ 100 * metric[i] <= 66 * M)
    /\ SizeClass(i) = "large" <=> (66 * M < 100 * metric[i] /\ metric[i] <= M)
    /\ metric[i] = M => SizeClass(i) = "large"

Scenario ==
    metric = <<10, 500, 1000>> =>
        [i \in Rivers |-> SizeClass(i)] = <<"small", "medium", "large">>

C10_MetricSource ==
    Rendered =>
        /\ Len(metric) = Len(river_gdf.rows)
        /\ "UPLAND_SKM" \in river_gdf.columns =>
               \A i \in Rivers :
                   metric[i] = (IF river_gdf.rows[i].UPLAND_SKM = [null |-> TRUE]
                                THEN 0 ELSE river_gdf.rows[i].UPLAND_SKM.v)
        /\ "UPLAND_SKM" \notin river_gdf.columns =>
               \A i \in Rivers : metric[i] = PlanarLength(river_gdf.rows[i].geometry)

\* a file with the column, one river with a null and one with a value,
\* both with a geometry of non-zero length
C10_Witness ==
    /\ Rendered
    /\ "UPLAND_SKM" \in river_gdf.columns
    /\ \E i, j \in Rivers :
           /\ river_gdf.rows[i].UPLAND_SKM = [null |-> TRUE]
           /\ river_gdf.rows[j].UPLAND_SKM # [null |-> TRUE]
           /\ metric[j] # 0
           /\ PlanarLength(river_gdf.rows[i].geometry) > 0

(***************************************************************************)
(* Properties of the dataset cache                                         *)
(***************************************************************************)
\* C11: no dataset file is ever opened for writing more than once, and no
\* step opens for writing, or removes, a file that is already in the data
\* folder; this with failed downloads and with two requests at once.
C11_DatasetCache ==
    [][\A f \in Files :
           /\ writes'[f] <= 1
           /\ data_folder[f] # "absent" =>
                  (writes'[f] = writes[f] /\ data_folder'[f] # "absent")]_vars

(***************************************************************************)
(* Properties of the request boundary                                      *)
(***************************************************************************)
\* the request went through the selection and no feature came back
NoFeature == ResolutionOver /\ selected_country = <<>>

\* nothing of the river read or of the rendering exists for the request
NothingProduced ==
    /\ river_gdf = RiversFrame({}, <<>>)
    /\ metric = <<>>
    /\ rel = <<>>
    /\ rivers_3857 = RiversFrame({}, <<>>)
    /\ \A o \in outputs : o.stem # Stem(country_name)

\* a request is waiting and the server can take it
KeepsServing == pending # <<>> => ENABLED NextRequest

\* C12: a request whose name selects no feature ends redirected with
\* exactly one flashed message, the one of the failed selection, with no
\* river read, no classification and no saved PNG or PDF of its own, and
\* the server takes the next request; a request whose name is empty or
\* only whitespace ends redirected with one message before any download
\* or selection was started.
C12_RequestBoundary ==
    /\ NoFeature =>
           /\ pc = "redirected"
           /\ Len(flashed) = 1
           /\ ResolutionFailed
           /\ NothingProduced
           /\ KeepsServing
    /\ (pc # "generate" /\ IsTrimOf(<<>>, form_country)) =>
           /\ pc = "redirected"
           /\ flashed = <<"Please select a country.">>
           /\ download["main"] = NotDownloading
           /\ country_name = <<>>
           /\ selected_country = <<>>
           /\ NothingProduced
           /\ KeepsServing

\* a later request whose name selects nothing, after a request that was
\* rendered from the downloaded files, with a further request waiting
C12_Witness ==
    /\ NoFeature
    /\ flashed = <<"Country not found. Try a different name.">>
    /\ outputs # {}
    /\ pending # <<>>

====
